---- MODULE Spec2Model ----
(***************************************************************************)
(* timespec.parse(spec, candidates, reverse, start, tz) as a state         *)
(* machine: the argument handling (lines 44-54), one step per token of the *)
(* classification loop (lines 64-119) and the domain construction and      *)
(* search (lines 120-156).  tz is pytz.utc throughout (the default).  A    *)
(* call without start and candidates takes datetime.now(tz) (line 50), an  *)
(* aware datetime: the variable now holds what the clock reads then.       *)
(*                                                                         *)
(* Values.  A token is the sequence of its characters.  A date is          *)
(* <<year, month, day>>, a time <<hour, minute, second, microsecond>>, a   *)
(* datetime [date, time, aware]; aware datetimes and times carry UTC.      *)
(* A predicate (a Python closure) is [kind, arg]: kind names the lambda,   *)
(* arg is the value bound when the closure was made.  Free variables of a  *)
(* lambda that are locals of parse (date, years, ..., start) are read when *)
(* the predicate is called, as Python reads them.                          *)
(***************************************************************************)
EXTENDS Integers, Sequences, FiniteSets, TLC

VARIABLES
    spec,               \* argument: the list of tokens
    arg_candidates,     \* argument: None or Some list of datetimes
    reverse,            \* argument
    arg_start,          \* argument: None or Some datetime
    now,                \* what datetime.datetime.now(tz) reads (line 50)
    pc,                 \* "setup", "classify", "resolve", "returned", "raised"
    i,                  \* position of the for loop of line 64 in spec
    candidates,         \* local: None or Some sorted, localized list
    start,              \* local
    end,                \* local
    date,               \* local: the last ISO date parsed (line 66)
    year_predicates, month_predicates, day_predicates, date_predicates,
    hour_predicates, minute_predicates, second_predicates, time_predicates,
    datetime_predicates,
    result,             \* the datetime returned (line 156)
    exception           \* [type, line] of the exception that left parse

buckets == <<year_predicates, month_predicates, day_predicates, date_predicates,
             hour_predicates, minute_predicates, second_predicates,
             time_predicates, datetime_predicates>>
inputs == <<spec, arg_candidates, reverse, arg_start, now>>
vars == <<inputs, pc, i, candidates, start, end, date, buckets, result, exception>>

\* None, and a value that is not None.  An optional argument or local is
\* None or Some(x); Get takes x out.
None == <<>>
Some(x) == <<x>>
Get(o) == o[1]
NoException == [type |-> "none", line |-> 0]
Raise(type, line) == [type |-> type, line |-> line]

-----------------------------------------------------------------------------
(* Calendar primitives: datetime.date, datetime.time, datetime.datetime.   *)

MINYEAR == 1
MAXYEAR == 9999
HoursPerDay == 24
MinutesPerHour == 60
SecondsPerMinute == 60
SecondsPerDay == HoursPerDay * MinutesPerHour * SecondsPerMinute
EpochOrdinal == 719163           \* date(1970, 1, 1).toordinal()

IsLeap(y) == (y % 4 = 0) /\ ((y % 100 # 0) \/ (y % 400 = 0))

DaysInMonth(y, m) ==
    IF m = 2 THEN (IF IsLeap(y) THEN 29 ELSE 28)
    ELSE IF m \in {4, 6, 9, 11} THEN 30 ELSE 31

\* Whether datetime.date(y, m, d) constructs (it raises ValueError otherwise).
ValidDate(y, m, d) ==
    /\ MINYEAR <= y /\ y <= MAXYEAR
    /\ 1 <= m /\ m <= 12
    /\ 1 <= d /\ d <= DaysInMonth(y, m)

\* date.toordinal(): days since 0001-01-01, which is day 1.
toordinal(d) ==
    LET y   == IF d[2] <= 2 THEN d[1] - 1 ELSE d[1]
        era == y \div 400
        yoe == y - era * 400
        mp  == IF d[2] > 2 THEN d[2] - 3 ELSE d[2] + 9
        doy == (153 * mp + 2) \div 5 + d[3] - 1
        doe == yoe * 365 + yoe \div 4 - yoe \div 100 + doy
    IN  era * 146097 + doe - 305

\* date.fromordinal(n).
fromordinal(n) ==
    LET z   == n + 305
        era == z \div 146097
        doe == z - era * 146097
        yoe == (doe - doe \div 1460 + doe \div 36524 - doe \div 146096) \div 365
        doy == doe - (365 * yoe + yoe \div 4 - yoe \div 100)
        mp  == (5 * doy + 2) \div 153
        d   == doy - (153 * mp + 2) \div 5 + 1
        m   == IF mp < 10 THEN mp + 3 ELSE mp - 9
        y   == yoe + era * 400
    IN  <<IF m <= 2 THEN y + 1 ELSE y, m, d>>

\* date.weekday(): Monday is 0.
weekday(d) == (toordinal(d) + 6) % 7

\* date + datetime.timedelta(days=n): OverflowError when the sum leaves
\* date.min..date.max, the date otherwise.
AddDaysOverflows(d, n) ==
    \/ toordinal(d) + n < toordinal(<<MINYEAR, 1, 1>>)
    \/ toordinal(d) + n > toordinal(<<MAXYEAR, 12, 31>>)
AddDays(d, n) == fromordinal(toordinal(d) + n)

\* Lexicographic order of tuples of integers of one length.
RECURSIVE TupleLess(_, _, _)
TupleLess(a, b, k) ==
    IF k > Len(a) THEN FALSE
    ELSE IF a[k] # b[k] THEN a[k] < b[k]
    ELSE TupleLess(a, b, k + 1)

date_lt(a, b) == TupleLess(a, b, 1)

\* The order of two datetimes of one awareness (both UTC when aware).
dt_lt(a, b) == \/ date_lt(a.date, b.date)
               \/ a.date = b.date /\ TupleLess(a.time, b.time, 1)
dt_le(a, b) == a = b \/ dt_lt(a, b)

is_aware(dt) == dt.aware                                   \* lines 32-38
localize(dt) == [dt EXCEPT !.aware = TRUE]                 \* pytz.utc.localize
combine(d, t) == [date |-> d, time |-> t, aware |-> TRUE]  \* datetime.combine, t aware

-----------------------------------------------------------------------------
(* Strings: str.split, str.lower, str.endswith, int().  A string is the    *)
(* sequence of its characters; a character is a string of length one, or,  *)
(* outside ASCII, the name of its code point ("U+0663").  An int is        *)
(* [negative, magnitude]: its sign and its decimal digits without leading  *)
(* zeros (<<>> for 0), of any length as a Python int is.                   *)

Digits == <<"0", "1", "2", "3", "4", "5", "6", "7", "8", "9">>
UpperCase == <<"A", "B", "C", "D", "E", "F", "G", "H", "I", "J", "K", "L", "M",
               "N", "O", "P", "Q", "R", "S", "T", "U", "V", "W", "X", "Y", "Z">>
LowerCase == <<"a", "b", "c", "d", "e", "f", "g", "h", "i", "j", "k", "l", "m",
               "n", "o", "p", "q", "r", "s", "t", "u", "v", "w", "x", "y", "z">>

\* The decimal digits outside ASCII that int() takes (Unicode 14, the
\* table of Python 3.11), each run from its zero to its nine.
UnicodeDigits == <<
    <<"U+0660", "U+0661", "U+0662", "U+0663", "U+0664",
      "U+0665", "U+0666", "U+0667", "U+0668", "U+0669">>,
    <<"U+06F0", "U+06F1", "U+06F2", "U+06F3", "U+06F4",
      "U+06F5", "U+06F6", "U+06F7", "U+06F8", "U+06F9">>,
    <<"U+07C0", "U+07C1", "U+07C2", "U+07C3", "U+07C4",
      "U+07C5", "U+07C6", "U+07C7", "U+07C8", "U+07C9">>,
    <<"U+0966", "U+0967", "U+0968", "U+0969", "U+096A",
      "U+096B", "U+096C", "U+096D", "U+096E", "U+096F">>,
    <<"U+09E6", "U+09E7", "U+09E8", "U+09E9", "U+09EA",
      "U+09EB", "U+09EC", "U+09ED", "U+09EE", "U+09EF">>,
    <<"U+0A66", "U+0A67", "U+0A68", "U+0A69", "U+0A6A",
      "U+0A6B", "U+0A6C", "U+0A6D", "U+0A6E", "U+0A6F">>,
    <<"U+0AE6", "U+0AE7", "U+0AE8", "U+0AE9", "U+0AEA",
      "U+0AEB", "U+0AEC", "U+0AED", "U+0AEE", "U+0AEF">>,
    <<"U+0B66", "U+0B67", "U+0B68", "U+0B69", "U+0B6A",
      "U+0B6B", "U+0B6C", "U+0B6D", "U+0B6E", "U+0B6F">>,
    <<"U+0BE6", "U+0BE7", "U+0BE8", "U+0BE9", "U+0BEA",
      "U+0BEB", "U+0BEC", "U+0BED", "U+0BEE", "U+0BEF">>,
    <<"U+0C66", "U+0C67", "U+0C68", "U+0C69", "U+0C6A",
      "U+0C6B", "U+0C6C", "U+0C6D", "U+0C6E", "U+0C6F">>,
    <<"U+0CE6", "U+0CE7", "U+0CE8", "U+0CE9", "U+0CEA",
      "U+0CEB", "U+0CEC", "U+0CED", "U+0CEE", "U+0CEF">>,
    <<"U+0D66", "U+0D67", "U+0D68", "U+0D69", "U+0D6A",
      "U+0D6B", "U+0D6C", "U+0D6D", "U+0D6E", "U+0D6F">>,
    <<"U+0DE6", "U+0DE7", "U+0DE8", "U+0DE9", "U+0DEA",
      "U+0DEB", "U+0DEC", "U+0DED", "U+0DEE", "U+0DEF">>,
    <<"U+0E50", "U+0E51", "U+0E52", "U+0E53", "U+0E54",
      "U+0E55", "U+0E56", "U+0E57", "U+0E58", "U+0E59">>,
    <<"U+0ED0", "U+0ED1", "U+0ED2", "U+0ED3", "U+0ED4",
      "U+0ED5", "U+0ED6", "U+0ED7", "U+0ED8", "U+0ED9">>,
    <<"U+0F20", "U+0F21", "U+0F22", "U+0F23", "U+0F24",
      "U+0F25", "U+0F26", "U+0F27", "U+0F28", "U+0F29">>,
    <<"U+1040", "U+1041", "U+1042", "U+1043", "U+1044",
      "U+1045", "U+1046", "U+1047", "U+1048", "U+1049">>,
    <<"U+1090", "U+1091", "U+1092", "U+1093", "U+1094",
      "U+1095", "U+1096", "U+1097", "U+1098", "U+1099">>,
    <<"U+17E0", "U+17E1", "U+17E2", "U+17E3", "U+17E4",
      "U+17E5", "U+17E6", "U+17E7", "U+17E8", "U+17E9">>,
    <<"U+1810", "U+1811", "U+1812", "U+1813", "U+1814",
      "U+1815", "U+1816", "U+1817", "U+1818", "U+1819">>,
    <<"U+1946", "U+1947", "U+1948", "U+1949", "U+194A",
      "U+194B", "U+194C", "U+194D", "U+194E", "U+194F">>,
    <<"U+19D0", "U+19D1", "U+19D2", "U+19D3", "U+19D4",
      "U+19D5", "U+19D6", "U+19D7", "U+19D8", "U+19D9">>,
    <<"U+1A80", "U+1A81", "U+1A82", "U+1A83", "U+1A84",
      "U+1A85", "U+1A86", "U+1A87", "U+1A88", "U+1A89">>,
    <<"U+1A90", "U+1A91", "U+1A92", "U+1A93", "U+1A94",
      "U+1A95", "U+1A96", "U+1A97", "U+1A98", "U+1A99">>,
    <<"U+1B50", "U+1B51", "U+1B52", "U+1B53", "U+1B54",
      "U+1B55", "U+1B56", "U+1B57", "U+1B58", "U+1B59">>,
    <<"U+1BB0", "U+1BB1", "U+1BB2", "U+1BB3", "U+1BB4",
      "U+1BB5", "U+1BB6", "U+1BB7", "U+1BB8", "U+1BB9">>,
    <<"U+1C40", "U+1C41", "U+1C42", "U+1C43", "U+1C44",
      "U+1C45", "U+1C46", "U+1C47", "U+1C48", "U+1C49">>,
    <<"U+1C50", "U+1C51", "U+1C52", "U+1C53", "U+1C54",
      "U+1C55", "U+1C56", "U+1C57", "U+1C58", "U+1C59">>,
    <<"U+A620", "U+A621", "U+A622", "U+A623", "U+A624",
      "U+A625", "U+A626", "U+A627", "U+A628", "U+A629">>,
    <<"U+A8D0", "U+A8D1", "U+A8D2", "U+A8D3", "U+A8D4",
      "U+A8D5", "U+A8D6", "U+A8D7", "U+A8D8", "U+A8D9">>,
    <<"U+A900", "U+A901", "U+A902", "U+A903", "U+A904",
      "U+A905", "U+A906", "U+A907", "U+A908", "U+A909">>,
    <<"U+A9D0", "U+A9D1", "U+A9D2", "U+A9D3", "U+A9D4",
      "U+A9D5", "U+A9D6", "U+A9D7", "U+A9D8", "U+A9D9">>,
    <<"U+A9F0", "U+A9F1", "U+A9F2", "U+A9F3", "U+A9F4",
      "U+A9F5", "U+A9F6", "U+A9F7", "U+A9F8", "U+A9F9">>,
    <<"U+AA50", "U+AA51", "U+AA52", "U+AA53", "U+AA54",
      "U+AA55", "U+AA56", "U+AA57", "U+AA58", "U+AA59">>,
    <<"U+ABF0", "U+ABF1", "U+ABF2", "U+ABF3", "U+ABF4",
      "U+ABF5", "U+ABF6", "U+ABF7", "U+ABF8", "U+ABF9">>,
    <<"U+FF10", "U+FF11", "U+FF12", "U+FF13", "U+FF14",
      "U+FF15", "U+FF16", "U+FF17", "U+FF18", "U+FF19">>,
    <<"U+104A0", "U+104A1", "U+104A2", "U+104A3", "U+104A4",
      "U+104A5", "U+104A6", "U+104A7", "U+104A8", "U+104A9">>,
    <<"U+10D30", "U+10D31", "U+10D32", "U+10D33", "U+10D34",
      "U+10D35", "U+10D36", "U+10D37", "U+10D38", "U+10D39">>,
    <<"U+11066", "U+11067", "U+11068", "U+11069", "U+1106A",
      "U+1106B", "U+1106C", "U+1106D", "U+1106E", "U+1106F">>,
    <<"U+110F0", "U+110F1", "U+110F2", "U+110F3", "U+110F4",
      "U+110F5", "U+110F6", "U+110F7", "U+110F8", "U+110F9">>,
    <<"U+11136", "U+11137", "U+11138", "U+11139", "U+1113A",
      "U+1113B", "U+1113C", "U+1113D", "U+1113E", "U+1113F">>,
    <<"U+111D0", "U+111D1", "U+111D2", "U+111D3", "U+111D4",
      "U+111D5", "U+111D6", "U+111D7", "U+111D8", "U+111D9">>,
    <<"U+112F0", "U+112F1", "U+112F2", "U+112F3", "U+112F4",
      "U+112F5", "U+112F6", "U+112F7", "U+112F8", "U+112F9">>,
    <<"U+11450", "U+11451", "U+11452", "U+11453", "U+11454",
      "U+11455", "U+11456", "U+11457", "U+11458", "U+11459">>,
    <<"U+114D0", "U+114D1", "U+114D2", "U+114D3", "U+114D4",
      "U+114D5", "U+114D6", "U+114D7", "U+114D8", "U+114D9">>,
    <<"U+11650", "U+11651", "U+11652", "U+11653", "U+11654",
      "U+11655", "U+11656", "U+11657", "U+11658", "U+11659">>,
    <<"U+116C0", "U+116C1", "U+116C2", "U+116C3", "U+116C4",
      "U+116C5", "U+116C6", "U+116C7", "U+116C8", "U+116C9">>,
    <<"U+11730", "U+11731", "U+11732", "U+11733", "U+11734",
      "U+11735", "U+11736", "U+11737", "U+11738", "U+11739">>,
    <<"U+118E0", "U+118E1", "U+118E2", "U+118E3", "U+118E4",
      "U+118E5", "U+118E6", "U+118E7", "U+118E8", "U+118E9">>,
    <<"U+11950", "U+11951", "U+11952", "U+11953", "U+11954",
      "U+11955", "U+11956", "U+11957", "U+11958", "U+11959">>,
    <<"U+11C50", "U+11C51", "U+11C52", "U+11C53", "U+11C54",
      "U+11C55", "U+11C56", "U+11C57", "U+11C58", "U+11C59">>,
    <<"U+11D50", "U+11D51", "U+11D52", "U+11D53", "U+11D54",
      "U+11D55", "U+11D56", "U+11D57", "U+11D58", "U+11D59">>,
    <<"U+11DA0", "U+11DA1", "U+11DA2", "U+11DA3", "U+11DA4",
      "U+11DA5", "U+11DA6", "U+11DA7", "U+11DA8", "U+11DA9">>,
    <<"U+16A60", "U+16A61", "U+16A62", "U+16A63", "U+16A64",
      "U+16A65", "U+16A66", "U+16A67", "U+16A68", "U+16A69">>,
    <<"U+16AC0", "U+16AC1", "U+16AC2", "U+16AC3", "U+16AC4",
      "U+16AC5", "U+16AC6", "U+16AC7", "U+16AC8", "U+16AC9">>,
    <<"U+16B50", "U+16B51", "U+16B52", "U+16B53", "U+16B54",
      "U+16B55", "U+16B56", "U+16B57", "U+16B58", "U+16B59">>,
    <<"U+1D7CE", "U+1D7CF", "U+1D7D0", "U+1D7D1", "U+1D7D2",
      "U+1D7D3", "U+1D7D4", "U+1D7D5", "U+1D7D6", "U+1D7D7">>,
    <<"U+1D7D8", "U+1D7D9", "U+1D7DA", "U+1D7DB", "U+1D7DC",
      "U+1D7DD", "U+1D7DE", "U+1D7DF", "U+1D7E0", "U+1D7E1">>,
    <<"U+1D7E2", "U+1D7E3", "U+1D7E4", "U+1D7E5", "U+1D7E6",
      "U+1D7E7", "U+1D7E8", "U+1D7E9", "U+1D7EA", "U+1D7EB">>,
    <<"U+1D7EC", "U+1D7ED", "U+1D7EE", "U+1D7EF", "U+1D7F0",
      "U+1D7F1", "U+1D7F2", "U+1D7F3", "U+1D7F4", "U+1D7F5">>,
    <<"U+1D7F6", "U+1D7F7", "U+1D7F8", "U+1D7F9", "U+1D7FA",
      "U+1D7FB", "U+1D7FC", "U+1D7FD", "U+1D7FE", "U+1D7FF">>,
    <<"U+1E140", "U+1E141", "U+1E142", "U+1E143", "U+1E144",
      "U+1E145", "U+1E146", "U+1E147", "U+1E148", "U+1E149">>,
    <<"U+1E2F0", "U+1E2F1", "U+1E2F2", "U+1E2F3", "U+1E2F4",
      "U+1E2F5", "U+1E2F6", "U+1E2F7", "U+1E2F8", "U+1E2F9">>,
    <<"U+1E950", "U+1E951", "U+1E952", "U+1E953", "U+1E954",
      "U+1E955", "U+1E956", "U+1E957", "U+1E958", "U+1E959">>,
    <<"U+1FBF0", "U+1FBF1", "U+1FBF2", "U+1FBF3", "U+1FBF4",
      "U+1FBF5", "U+1FBF6", "U+1FBF7", "U+1FBF8", "U+1FBF9">> >>
UnicodeDigitSet == {UnicodeDigits[r][k] : r \in 1..Len(UnicodeDigits), k \in 1..10}

IsDigit(c) == (\E k \in 1..10 : Digits[k] = c) \/ c \in UnicodeDigitSet
DigitValue(c) ==
    (CHOOSE k \in 1..10 :
        \/ Digits[k] = c
        \/ c \in UnicodeDigitSet /\ \E r \in 1..Len(UnicodeDigits) : UnicodeDigits[r][k] = c) - 1

\* c.lower() == l, for a lower-case ASCII letter l: c is l, the upper-case
\* letter of l, or the Kelvin sign for "k".  No other character lowers to
\* an ASCII letter alone.
lower_is(c, l) ==
    \/ c = l
    \/ \E k \in 1..26 : UpperCase[k] = c /\ LowerCase[k] = l
    \/ c = "U+212A" /\ l = "k"
\* s.lower() == w, for a string w of lower-case ASCII letters: s.lower() is
\* made of the lower() of each character of s, in order, and w is of one
\* character for each of s.
lower_equals(s, w) ==
    Len(s) = Len(w) /\ \A k \in 1..Len(s) : lower_is(s[k], w[k])
\* s.lower() in list and list.index(s.lower()) (lines 96, 97), for a list of
\* strings of lower-case ASCII letters.
lower_in(s, list) == \E k \in 1..Len(list) : lower_equals(s, list[k])
lower_index(s, list) ==
    (CHOOSE k \in 1..Len(list) :
        lower_equals(s, list[k]) /\ \A j \in 1..(k - 1) : ~lower_equals(s, list[j])) - 1

contains(s, c) == \E k \in 1..Len(s) : s[k] = c
endswith(s, c) == Len(s) >= 1 /\ s[Len(s)] = c
ButLast(s) == SubSeq(s, 1, Len(s) - 1)                     \* s[:-1]

\* s.split(c): the pieces of s between the occurrences of c.
RECURSIVE split(_, _)
split(s, c) ==
    IF ~contains(s, c) THEN <<s>>
    ELSE LET k == CHOOSE j \in 1..Len(s) : s[j] = c /\ \A h \in 1..(j - 1) : s[h] # c
         IN  <<SubSeq(s, 1, k - 1)>> \o split(SubSeq(s, k + 1, Len(s)), c)

\* The white space int() strips: that of ASCII (U+000B, the vertical tab,
\* among it) and that beyond.
Whitespace ==
    {" ", "\t", "\n", "\r", "\f",
     "U+000B", "U+0085", "U+00A0", "U+1680", "U+2000", "U+2001", "U+2002", "U+2003",
     "U+2004", "U+2005", "U+2006", "U+2007", "U+2008", "U+2009", "U+200A", "U+2028",
     "U+2029", "U+202F", "U+205F", "U+3000"}

\* s.strip(): s without the white space at its ends.
strip(s) ==
    IF \A k \in 1..Len(s) : s[k] \in Whitespace THEN <<>>
    ELSE SubSeq(s, CHOOSE j \in 1..Len(s) :
                       s[j] \notin Whitespace /\ \A h \in 1..(j - 1) : s[h] \in Whitespace,
                   CHOOSE j \in 1..Len(s) :
                       s[j] \notin Whitespace /\ \A h \in (j + 1)..Len(s) : s[h] \in Whitespace)

\* The literal of int(s) after the white space and the sign.
unsigned(s) ==
    IF Len(strip(s)) >= 1 /\ strip(s)[1] \in {"-", "+"} THEN Tail(strip(s)) ELSE strip(s)

\* The most digits int() takes: sys.get_int_max_str_digits() of CPython 3.11.
MaxStrDigits == 4300

\* Whether int(s) returns (it raises ValueError otherwise): white space,
\* an optional sign, then digits with single underscores between them, at
\* most MaxStrDigits digits.
IsInt(s) ==
    \A body \in {unsigned(s)} :
        /\ Len(body) >= 1 /\ IsDigit(body[1]) /\ IsDigit(body[Len(body)])
        /\ \A k \in 1..Len(body) :
              IsDigit(body[k]) \/ (body[k] = "_" /\ body[k - 1] # "_")
        /\ Len(SelectSeq(body, IsDigit)) <= MaxStrDigits

\* The digits of a literal in ASCII, without its leading zeros.
significant(ds) ==
    IF \A k \in 1..Len(ds) : DigitValue(ds[k]) = 0 THEN <<>>
    ELSE LET j == CHOOSE j \in 1..Len(ds) :
                     DigitValue(ds[j]) # 0 /\ \A h \in 1..(j - 1) : DigitValue(ds[h]) = 0
         IN  [k \in 1..(Len(ds) - j + 1) |-> Digits[DigitValue(ds[k + j - 1]) + 1]]

\* The magnitude of int(s) in decimal, <<>> for 0, and its sign.
magnitude(s) == significant(SelectSeq(unsigned(s), IsDigit))
negative(s) == strip(s)[1] = "-" /\ magnitude(s) # <<>>

\* int(s), for a string int() takes.
int(s) == [negative |-> negative(s), magnitude |-> magnitude(s)]

\* a <= b for two magnitudes.
RECURSIVE DigitsLessEq(_, _, _)
DigitsLessEq(a, b, k) ==
    IF Len(a) # Len(b) THEN Len(a) < Len(b)
    ELSE IF k > Len(a) THEN TRUE
    ELSE IF a[k] # b[k] THEN DigitValue(a[k]) < DigitValue(b[k])
    ELSE DigitsLessEq(a, b, k + 1)

RECURSIVE DigitsValue(_)
DigitsValue(ds) ==
    IF ds = <<>> THEN 0
    ELSE 10 * DigitsValue(ButLast(ds)) + DigitValue(ds[Len(ds)])

\* The magnitudes of the largest and the smallest C int, which datetime.date
\* takes (line 162).
INT_MAX_digits == <<"2", "1", "4", "7", "4", "8", "3", "6", "4", "7">>
INT_MIN_digits == <<"2", "1", "4", "7", "4", "8", "3", "6", "4", "8">>

\* Whether the int n is outside the C ints.
c_int_overflows(n) ==
    IF n.negative THEN ~DigitsLessEq(n.magnitude, INT_MIN_digits, 1)
    ELSE ~DigitsLessEq(n.magnitude, INT_MAX_digits, 1)

\* The int n as an integer of this module, for |n| up to the largest C int.
int_fits(n) == DigitsLessEq(n.magnitude, INT_MAX_digits, 1)
int_value(n) ==
    IF n.negative THEN 0 - DigitsValue(n.magnitude) ELSE DigitsValue(n.magnitude)

\* v == n and v <= n, for an integer v of this module and an int n.
int_equals(v, n) == int_fits(n) /\ int_value(n) = v
int_at_least(n, v) ==
    IF int_fits(n) THEN v <= int_value(n) ELSE ~n.negative

\* Whether a value a predicate closes over is an int (the others are dates,
\* times and datetimes).
is_int(x) == DOMAIN x = {"negative", "magnitude"}

\* The whole days and the seconds left of the seconds n >= 0 of magnitude m,
\* digit by digit; days beyond the calendar are kept as its last ordinal.
RECURSIVE days_and_seconds(_, _, _, _)
days_and_seconds(m, k, days, seconds) ==
    IF k > Len(m) THEN <<days, seconds>>
    ELSE LET r == seconds * 10 + DigitValue(m[k])
         IN  days_and_seconds(m, k + 1,
                 IF days >= toordinal(<<MAXYEAR, 12, 31>>) THEN toordinal(<<MAXYEAR, 12, 31>>)
                 ELSE days * 10 + r \div SecondsPerDay,
                 r % SecondsPerDay)

\* The largest n gmtime takes (the year fits a C int) and the largest
\* time_t, on the platform of the program (64 bits, glibc).
GMTIME_MAX_digits == <<"6", "7", "7", "6", "8", "0", "3", "6", "1", "9", "1", "6", "7",
                       "6", "7", "9", "9">>
TIME_T_MAX_digits == <<"9", "2", "2", "3", "3", "7", "2", "0", "3", "6", "8", "5", "4",
                       "7", "7", "5", "8", "0", "7">>

\* datetime.datetime.fromtimestamp(n, pytz.utc) for an int n >= 0: the
\* exception it raises ("none" when it returns) and the datetime.  Beyond
\* time_t it raises OverflowError, beyond what gmtime takes OSError, beyond
\* year 9999 ValueError.
fromtimestamp_raises(n) ==
    IF ~DigitsLessEq(n.magnitude, TIME_T_MAX_digits, 1) THEN "OverflowError"
    ELSE IF ~DigitsLessEq(n.magnitude, GMTIME_MAX_digits, 1) THEN "OSError"
    ELSE IF EpochOrdinal + days_and_seconds(n.magnitude, 1, 0, 0)[1]
               > toordinal(<<MAXYEAR, 12, 31>>)
    THEN "ValueError"
    ELSE "none"
fromtimestamp(n) ==
    LET ds == days_and_seconds(n.magnitude, 1, 0, 0)
    IN  [date  |-> fromordinal(EpochOrdinal + ds[1]),
         time  |-> <<ds[2] \div (MinutesPerHour * SecondsPerMinute),
                     (ds[2] \div SecondsPerMinute) % MinutesPerHour,
                     ds[2] % SecondsPerMinute, 0>>,
         aware |-> TRUE]

-----------------------------------------------------------------------------
(* Program constants.                                                      *)

WEEKDAYS == << <<"m", "o", "n">>, <<"t", "u", "e">>, <<"w", "e", "d">>,
               <<"t", "h", "u">>, <<"f", "r", "i">>, <<"s", "a", "t">>,
               <<"s", "u", "n">> >>                          \* lines 7-15
HorizonYears == 10                                           \* line 51
TimestampFloor == 1000000000                                 \* line 113
MonthsPerYear == 12                                          \* line 124
MaxDayOfMonth == 31                                          \* line 125

\* range(a, b) and range(a, b, -1) as lists.
range(a, b) == [k \in 1..(IF b > a THEN b - a ELSE 0) |-> a + k - 1]
range_down(a, b) == [k \in 1..(IF a > b THEN a - b ELSE 0) |-> a - k + 1]

\* x in list
In(x, list) == \E k \in 1..Len(list) : list[k] = x           \* x in list

-----------------------------------------------------------------------------
(* Predicates: the closures parse builds, and what calling one does.       *)

Pred(kind, arg) == [kind |-> kind, arg |-> arg]

equals_predicate(value) == Pred("equals", value)             \* lines 29-30
modulus_predicate(modulus) == Pred("modulus", modulus)       \* lines 40-41
\* weekday_predicate taking the day after: C1 fails with it.
weekday_predicate_next(wd) == Pred("weekday", (wd + 1) % Len(WEEKDAYS))
weekday_predicate(wd) == Pred("weekday", wd)                 \* lines 187-188

\* lambda y: y == date.year, and the month and day (lines 76-78): date is the
\* local variable of parse, read when the lambda is called.
date_year_lambda == Pred("y == date.year", 0)
date_month_lambda == Pred("m == date.month", 0)
date_day_lambda == Pred("d == date.day", 0)

\* Python's v % n == 0 for an integer v >= 0 of this module and an int
\* n # 0: |n| divides v, and beyond the C ints |n| is above every v but 0.
ModIsZero(v, n) ==
    IF int_fits(n) THEN v % DigitsValue(n.magnitude) = 0 ELSE v = 0

\* date_time >= start, date_time <= start (lines 151, 153), start aware.
boundary_holds(kind, date_time, s) ==
    IF kind = "date_time <= start" THEN dt_le(date_time, s) ELSE dt_le(s, date_time)

\* The exception calling p raises, whatever the value it is called with:
\* a zero modulus (line 41), the comparison of an aware datetime with a
\* naive start (lines 151, 153).  "none" when it returns.
Raises(p, env) ==
    IF p.kind = "modulus" /\ p.arg.magnitude = <<>> THEN Raise("ZeroDivisionError", 41)
    ELSE IF p.kind = "date_time <= start" /\ ~is_aware(env.start)
         THEN Raise("TypeError", 151)
    ELSE IF p.kind = "date_time >= start" /\ ~is_aware(env.start)
         THEN Raise("TypeError", 153)
    ELSE NoException

\* date_range(start, end) (lines 17-27): its length, its k-th date, membership.
date_range_len(s, e) ==
    IF date_lt(e, s) THEN toordinal(s) - toordinal(e) ELSE toordinal(e) - toordinal(s)
date_range_at(s, e, k) ==
    IF date_lt(e, s) THEN AddDays(s, 0 - (k - 1)) ELSE AddDays(s, k - 1)
date_range(s, e) == [k \in 1..date_range_len(s, e) |-> date_range_at(s, e, k)]
in_date_range(d, s, e) ==
    IF date_lt(e, s) THEN ~date_lt(s, d) /\ date_lt(e, d)
    ELSE ~date_lt(d, s) /\ date_lt(d, e)

\* time_range(tz, reverse=reverse) (lines 175-185): the k-th time of the three
\* nested loops, and membership.
SecondOfDay(rev, k) == IF rev THEN SecondsPerDay - k ELSE k - 1
time_range_at(rev, k) ==
    LET sod == SecondOfDay(rev, k)
    IN  <<sod \div (MinutesPerHour * SecondsPerMinute),
          (sod \div SecondsPerMinute) % MinutesPerHour,
          sod % SecondsPerMinute, 0>>
time_range(rev) == [k \in 1..SecondsPerDay |-> time_range_at(rev, k)]
in_time_range(t) ==
    /\ t[1] \in 0..(HoursPerDay - 1)
    /\ t[2] \in 0..(MinutesPerHour - 1)
    /\ t[3] \in 0..(SecondsPerMinute - 1)
    /\ t[4] = 0

\* The first and last date of the date_range of line 133 or 135.
dates_first(env) == env.start.date
dates_stop_overflows(env) ==
    AddDaysOverflows(env.end.date, IF env.reverse THEN 0 - 1 ELSE 1)
dates_stop(env) == AddDays(env.end.date, IF env.reverse THEN 0 - 1 ELSE 1)

\* Calling predicate p on v.  env holds the locals of parse the lambdas read.
\* dates and times are the lists of lines 133-135 and 145: a value is in one
\* when the range generates it and every predicate of the bucket holds.
RECURSIVE Holds(_, _, _)
all_upto(predicates, n, v, env) == \A k \in 1..n : Holds(predicates[k], v, env)
all(predicates, v, env) == all_upto(predicates, Len(predicates), v, env)
in_dates(d, env) ==
    /\ in_date_range(d, dates_first(env), dates_stop(env))
    /\ all(env.date_predicates, d, env)
in_times(t, env) ==
    /\ in_time_range(t)
    /\ all(env.time_predicates, t, env)
Holds(p, v, env) ==
    CASE p.kind = "equals" -> IF is_int(p.arg) THEN int_equals(v, p.arg) ELSE v = p.arg
      [] p.kind = "modulus" -> ModIsZero(v, p.arg)
      [] p.kind = "weekday" -> weekday(v) = p.arg
      [] p.kind = "y == date.year" -> v = env.date[1]
      [] p.kind = "m == date.month" -> v = env.date[2]
      [] p.kind = "d == date.day" -> v = env.date[3]
      [] p.kind = "date.year in years" -> In(v[1], env.years)
      [] p.kind = "date.month in months" -> In(v[2], env.months)
      [] p.kind = "date.day in days" -> In(v[3], env.days)
      [] p.kind = "time.hour in hours" -> In(v[1], env.hours)
      [] p.kind = "time.minute in minutes" -> In(v[2], env.minutes)
      [] p.kind = "time.second in seconds" -> In(v[3], env.seconds)
      [] p.kind = "date_time.date() in dates" -> in_dates(v.date, env)
      [] p.kind = "date_time.timetz() in times" -> in_times(v.time, env)
      [] OTHER -> boundary_holds(p.kind, v, env.start)

\* all(predicate(val) for predicate in predicates) (line 172) stops at the
\* first predicate that returns False or raises.  Whether a predicate raises
\* does not depend on val, so the first one that does cuts the list: val
\* reaches it when every predicate before it holds.
first_raising(predicates, env) ==
    IF \E k \in 1..Len(predicates) : Raises(predicates[k], env) # NoException
    THEN CHOOSE k \in 1..Len(predicates) :
            /\ Raises(predicates[k], env) # NoException
            /\ \A j \in 1..(k - 1) : Raises(predicates[j], env) = NoException
    ELSE 0

\* resolve_predicates(predicates, values) (lines 170-173) on a short list,
\* from its k-th value on, when no predicate raises.
RECURSIVE resolve_predicates(_, _, _, _)
resolve_predicates(predicates, values, k, env) ==
    IF k > Len(values) THEN <<>>
    ELSE IF all(predicates, values[k], env)
         THEN <<values[k]>> \o resolve_predicates(predicates, values, k + 1, env)
         ELSE resolve_predicates(predicates, values, k + 1, env)

\* predicate_list(predicates, values) (lines 164-168) on a short list:
\* [exception, list].  A predicate that raises ends it at the first value
\* that reaches the predicate.
predicate_list(predicates, values, env) ==
    CHOOSE out \in
        {IF r > 0 /\ \E k \in 1..Len(values) : all_upto(predicates, r - 1, values[k], env)
         THEN [exception |-> Raises(predicates[r], env), list |-> <<>>]
         ELSE IF r > 0
         THEN [exception |-> Raise("ValueError", 167), list |-> <<>>]
         ELSE [exception |-> NoException,
               list |-> resolve_predicates(predicates, values, 1, env)]
         : r \in {first_raising(predicates, env)}} :
        TRUE

-----------------------------------------------------------------------------
(* Lines 44-54: the candidates, start and end.                             *)

\* sorted(list, reverse=reverse) of datetimes of one awareness.
RECURSIVE sorted(_, _)
sorted(list, rev) ==
    IF list = <<>> THEN <<>>
    ELSE LET k == CHOOSE j \in 1..Len(list) :
                     \A h \in 1..Len(list) :
                        IF rev THEN dt_le(list[h], list[j]) ELSE dt_le(list[j], list[h])
             rest == [h \in 1..(Len(list) - 1) |-> IF h < k THEN list[h] ELSE list[h + 1]]
         IN  <<list[k]>> \o sorted(rest, rev)

\* Line 45.
sort_candidates(list, rev) ==
    sorted([k \in 1..Len(list) |->
               IF is_aware(list[k]) THEN list[k] ELSE localize(list[k])], rev)

\* Line 51: the date of start.replace(year=..., day=...).
end_date(s, rev) ==
    <<IF rev THEN s.date[1] - HorizonYears ELSE s.date[1] + HorizonYears,
      s.date[2],
      IF s.date[2] = 2 /\ s.date[3] = 29 THEN 28 ELSE s.date[3]>>

Fail(exc) ==
    /\ pc' = "raised"
    /\ exception' = exc
    /\ result' = None

Setup ==
    /\ pc = "setup"
    /\ UNCHANGED <<inputs, i, date, buckets>>
    /\ IF arg_candidates # None
       THEN LET list == sort_candidates(Get(arg_candidates), reverse)
            IN  IF Len(list) = 0
                THEN /\ Fail(Raise("ValueError", 47))
                     /\ candidates' = Some(list)
                     /\ UNCHANGED <<start, end>>
                ELSE /\ candidates' = Some(list)
                     /\ start' = list[1]                       \* line 53
                     /\ end' = list[Len(list)]                 \* line 54
                     /\ pc' = IF Len(spec) = 0 THEN "resolve" ELSE "classify"
                     /\ UNCHANGED <<result, exception>>
       ELSE \E s \in {IF arg_start = None THEN now ELSE Get(arg_start)} :
            LET e == end_date(s, reverse)
            IN  /\ start' = s                                 \* lines 49-50
                /\ IF ~ValidDate(e[1], e[2], e[3])
                   THEN /\ Fail(Raise("ValueError", 51))
                        /\ UNCHANGED <<candidates, end>>
                   ELSE /\ end' = [s EXCEPT !.date = e]
                        /\ pc' = IF Len(spec) = 0 THEN "resolve" ELSE "classify"
                        /\ UNCHANGED <<candidates, result, exception>>

-----------------------------------------------------------------------------
(* Lines 64-119: one token of the for loop.                                *)

\* parse_iso_date (lines 158-162): whether it returns, and the date.
\* Line 162 raises OverflowError: the three parts are ints and one is
\* outside the C ints.  The except of line 67 does not take it.
iso_date_overflows(date_str) ==
    LET parts == split(date_str, "-")
    IN  /\ Len(parts) = 3
        /\ \A k \in 1..3 : IsInt(parts[k])
        /\ \E k \in 1..3 : c_int_overflows(int(parts[k]))
\* Lines 158-162 return a date.
iso_date_parses(date_str) ==
    LET parts == split(date_str, "-")
    IN  /\ Len(parts) = 3
        /\ \A k \in 1..3 : IsInt(parts[k])
        /\ \A k \in 1..3 : int_fits(int(parts[k]))
        /\ ValidDate(int_value(int(parts[1])), int_value(int(parts[2])),
                     int_value(int(parts[3])))
parse_iso_date(date_str) ==
    LET parts == split(date_str, "-")
    IN  <<int_value(int(parts[1])), int_value(int(parts[2])), int_value(int(parts[3]))>>

\* Lines 82 and 90: None for an empty part, int(part) otherwise.
time_units_parse(parts) == \A k \in 1..Len(parts) : parts[k] = <<>> \/ IsInt(parts[k])
time_unit_predicates(part) ==
    IF part = <<>> THEN <<>> ELSE <<equals_predicate(int(part))>>

\* Lines 70-75: the date of an ISO token is on the wrong side of start.
wrong_side(d, s, rev) ==
    IF rev THEN date_lt(s.date, d) ELSE date_lt(d, s.date)

\* The part of the loop body a token takes (lines 66, 80, 96, 99-108, 111).
token_class(predicate_str) ==
    IF iso_date_overflows(predicate_str) THEN "overflow"
    ELSE IF iso_date_parses(predicate_str) THEN "date"
    ELSE IF contains(predicate_str, ":") THEN "time"
    ELSE IF lower_in(predicate_str, WEEKDAYS) THEN "weekday"
    ELSE IF endswith(predicate_str, "s") THEN "s"
    ELSE IF endswith(predicate_str, "m") THEN "m"
    ELSE IF endswith(predicate_str, "h") THEN "h"
    ELSE IF endswith(predicate_str, "d") THEN "d"
    ELSE "int"

Continue ==
    /\ i' = i + 1
    /\ pc' = IF i + 1 > Len(spec) THEN "resolve" ELSE "classify"
    /\ UNCHANGED <<result, exception>>

Break(exc) ==
    /\ Fail(exc)
    /\ UNCHANGED <<i, date, buckets>>

Classify ==
    /\ pc = "classify"
    /\ UNCHANGED <<inputs, candidates, start, end>>
    /\ LET predicate_str == spec[i]
           class == token_class(predicate_str)
           parts == split(predicate_str, ":")
       IN
       CASE class = "overflow" ->
              Break(Raise("OverflowError", 162))
         [] class = "date" ->
              LET d == parse_iso_date(predicate_str)
              IN  IF wrong_side(d, start, reverse)
                  THEN Break(Raise("ValueError", IF reverse THEN 72 ELSE 75))
                  ELSE /\ date' = d
                       /\ year_predicates' = Append(year_predicates, date_year_lambda)
                       /\ month_predicates' = Append(month_predicates, date_month_lambda)
                       /\ day_predicates' = Append(day_predicates, date_day_lambda)
                       /\ UNCHANGED <<date_predicates, hour_predicates, minute_predicates,
                                      second_predicates, time_predicates,
                                      datetime_predicates>>
                       /\ Continue
         [] class = "time" /\ Len(parts) = 3 ->
              IF ~time_units_parse(parts)
              THEN Break(Raise("ValueError", 82))
              ELSE /\ hour_predicates' = hour_predicates \o time_unit_predicates(parts[1])
                   /\ minute_predicates' = minute_predicates \o time_unit_predicates(parts[2])
                   /\ second_predicates' = second_predicates \o time_unit_predicates(parts[3])
                   /\ UNCHANGED <<date, year_predicates, month_predicates, day_predicates,
                                  date_predicates, time_predicates, datetime_predicates>>
                   /\ Continue
         [] class = "time" /\ Len(parts) # 3 ->
              \* two targets: more parts than two do not unpack
              IF Len(parts) # 2 \/ ~time_units_parse(parts)
              THEN Break(Raise("ValueError", 90))
              ELSE /\ hour_predicates' = hour_predicates \o time_unit_predicates(parts[1])
                   /\ minute_predicates' = minute_predicates \o time_unit_predicates(parts[2])
                   /\ UNCHANGED <<date, year_predicates, month_predicates, day_predicates,
                                  date_predicates, second_predicates, time_predicates,
                                  datetime_predicates>>
                   /\ Continue
         [] class = "weekday" ->
              /\ date_predicates' = Append(date_predicates,
                     weekday_predicate(lower_index(predicate_str, WEEKDAYS)))
              /\ UNCHANGED <<date, year_predicates, month_predicates, day_predicates,
                             hour_predicates, minute_predicates, second_predicates,
                             time_predicates, datetime_predicates>>
              /\ Continue
         [] class \in {"s", "m", "h", "d"} ->
              IF ~IsInt(ButLast(predicate_str))
              THEN Break(Raise("ValueError",
                         CASE class = "s" -> 100 [] class = "m" -> 103
                           [] class = "h" -> 106 [] OTHER -> 109))
              ELSE LET p == modulus_predicate(int(ButLast(predicate_str)))
                   IN  /\ second_predicates' =
                              IF class = "s" THEN Append(second_predicates, p)
                              ELSE second_predicates
                       /\ minute_predicates' =
                              IF class = "m" THEN Append(minute_predicates, p)
                              ELSE minute_predicates
                       /\ hour_predicates' =
                              IF class = "h" THEN Append(hour_predicates, p)
                              ELSE hour_predicates
                       /\ day_predicates' =
                              IF class = "d" THEN Append(day_predicates, p)
                              ELSE day_predicates
                       /\ UNCHANGED <<date, year_predicates, month_predicates,
                                      date_predicates, time_predicates,
                                      datetime_predicates>>
                       /\ Continue
         [] OTHER ->
              \* lines 111-119: int() raising ValueError leaves the with block
              \* and reaches the raise; otherwise the loop continues.
              IF ~IsInt(predicate_str)
              THEN Break(Raise("ValueError", 119))
              ELSE LET predicate_int == int(predicate_str)
                       is_timestamp == int_at_least(predicate_int, TimestampFloor)
                       raises == fromtimestamp_raises(predicate_int)
                       timestamp == fromtimestamp(predicate_int)
                   IN  \* line 114 raising ValueError leaves the with block too
                       IF is_timestamp /\ raises = "ValueError"
                       THEN Break(Raise("ValueError", 119))
                       ELSE IF is_timestamp /\ raises # "none"
                       THEN Break(Raise(raises, 114))
                       ELSE
                       /\ date_predicates' =
                              IF is_timestamp
                              THEN Append(date_predicates, equals_predicate(timestamp.date))
                              ELSE date_predicates
                       /\ time_predicates' =
                              IF is_timestamp
                              THEN Append(time_predicates, equals_predicate(timestamp.time))
                              ELSE time_predicates
                       /\ datetime_predicates' =
                              IF is_timestamp
                              THEN Append(datetime_predicates, equals_predicate(timestamp))
                              ELSE datetime_predicates
                       /\ UNCHANGED <<date, year_predicates, month_predicates,
                                      day_predicates, hour_predicates, minute_predicates,
                                      second_predicates>>
                       /\ Continue

-----------------------------------------------------------------------------
(* Lines 120-156: the domains and the search.                              *)

membership_lambdas(a, b, c) == <<Pred(a, 0), Pred(b, 0), Pred(c, 0)>>

\* The boundary with the directions exchanged: C2 fails with it.
boundary_lambda_exchanged(rev) ==
    Pred(IF rev THEN "date_time >= start" ELSE "date_time <= start", 0)

\* Line 151 or 153.
boundary_lambda(rev) ==
    Pred(IF rev THEN "date_time <= start" ELSE "date_time >= start", 0)

\* The outcome of lines 120-125 and 136-138: the first exception of three
\* predicate_list calls (an empty list is ValueError, line 167), else none.
first_exception(a, b, c) ==
    IF a.exception # NoException THEN a.exception
    ELSE IF a.list = <<>> THEN Raise("ValueError", 167)
    ELSE IF b.exception # NoException THEN b.exception
    ELSE IF b.list = <<>> THEN Raise("ValueError", 167)
    ELSE IF c.exception # NoException THEN c.exception
    ELSE IF c.list = <<>> THEN Raise("ValueError", 167)
    ELSE NoException

\* Whether resolve_predicates (line 172) stops at date_time: every predicate
\* before the first raising one (all of them when none raises) holds.
stops(dt_preds, r, date_time, env) ==
    all_upto(dt_preds, IF r > 0 THEN r - 1 ELSE Len(dt_preds), date_time, env)

\* The k-th date of line 133 or 135 and the k-th time of line 145, before
\* the predicates filter them.
DateAt(env, k) == date_range_at(dates_first(env), dates_stop(env), k)
TimeAt(env, k) == time_range_at(env.reverse, k)

\* Whether the generator of line 154 reaches a datetime resolve_predicates
\* stops at, on the a-th date (a date of dates), at the b-th time (a time
\* of times).
stops_at(dt_preds, r, a, b, env) ==
    \E d \in {DateAt(env, a)} : \E t \in {TimeAt(env, b)} :
        /\ all(env.time_predicates, t, env)
        /\ \E date_time \in {combine(d, t)} : stops(dt_preds, r, date_time, env)
stops_on(dt_preds, r, a, env) ==
    /\ \E d \in {DateAt(env, a)} : all(env.date_predicates, d, env)
    /\ \E b \in 1..SecondsPerDay : stops_at(dt_preds, r, a, b, env)

\* Line 154 without its candidates: C4 fails with it.
product_always(cands) == None

\* Line 154: candidates or the generator over dates x times.  None stands
\* for the generator.
candidates_or_product(cands) == cands

\* Lines 146-156, given the locals: next() of resolve_predicates over the
\* datetimes of dates x times in order, or over the candidates.  The position
\* past the last stands for exhaustion.
search(cands, dt_preds, env) ==
    LET n_dates == date_range_len(dates_first(env), dates_stop(env)) IN
    \E r \in {first_raising(dt_preds, env)} :
    IF cands = None
    THEN \E a0 \in {CHOOSE a \in 1..(n_dates + 1) :
                      /\ a = n_dates + 1 \/ stops_on(dt_preds, r, a, env)
                      /\ \A j \in 1..(a - 1) : ~stops_on(dt_preds, r, j, env)} :
         IF a0 > n_dates THEN Fail(Raise("StopIteration", 154))
         ELSE \E b0 \in {CHOOSE b \in 1..SecondsPerDay :
                           /\ stops_at(dt_preds, r, a0, b, env)
                           /\ \A j \in 1..(b - 1) : ~stops_at(dt_preds, r, a0, j, env)} :
              IF r > 0 THEN Fail(Raises(dt_preds[r], env))
              ELSE /\ pc' = "returned"
                   /\ result' = combine(DateAt(env, a0), TimeAt(env, b0))
                   /\ UNCHANGED exception
    ELSE \E list \in {Get(cands)} :
         \E k0 \in {CHOOSE k \in 1..(Len(list) + 1) :
                      /\ k = Len(list) + 1 \/ stops(dt_preds, r, list[k], env)
                      /\ \A j \in 1..(k - 1) : ~stops(dt_preds, r, list[j], env)} :
         IF k0 > Len(list) THEN Fail(Raise("StopIteration", 154))
         ELSE IF r > 0 THEN Fail(Raises(dt_preds[r], env))
         ELSE IF ~is_aware(list[k0]) THEN Fail(Raise("AssertionError", 155))
         ELSE /\ pc' = "returned"
              /\ result' = list[k0]
              /\ UNCHANGED exception

Resolve ==
    /\ pc = "resolve"
    /\ UNCHANGED <<inputs, i, candidates, start, end, date,
                   year_predicates, month_predicates, day_predicates,
                   hour_predicates, minute_predicates, second_predicates>>
    /\ \E env0 \in {[date |-> date, start |-> start, end |-> end, reverse |-> reverse,
                     years |-> <<>>, months |-> <<>>, days |-> <<>>,
                     hours |-> <<>>, minutes |-> <<>>, seconds |-> <<>>,
                     date_predicates |-> <<>>, time_predicates |-> <<>>]} :
       \* lines 120-125
       \E years \in {predicate_list(year_predicates,
                        IF reverse THEN range_down(start.date[1], end.date[1] - 1)
                        ELSE range(start.date[1], end.date[1] + 1), env0)} :
       \E months \in {predicate_list(month_predicates, range(1, MonthsPerYear + 1), env0)} :
       \E days \in {predicate_list(day_predicates, range(1, MaxDayOfMonth + 1), env0)} :
       IF first_exception(years, months, days) # NoException
       THEN /\ Fail(first_exception(years, months, days))
            /\ UNCHANGED <<date_predicates, time_predicates, datetime_predicates>>
       ELSE
       \* lines 126-131
       \E date_preds \in {IF Len(year_predicates) > 0 \/ Len(month_predicates) > 0
                             \/ Len(day_predicates) > 0
                          THEN date_predicates \o
                               membership_lambdas("date.year in years",
                                   "date.month in months", "date.day in days")
                          ELSE date_predicates} :
       \E env1 \in {[env0 EXCEPT !.years = years.list, !.months = months.list,
                                 !.days = days.list, !.date_predicates = date_preds]} :
       /\ date_predicates' = date_preds
       \* lines 133, 135: the day past end is not a date
       /\ IF dates_stop_overflows(env1)
          THEN /\ Fail(Raise("OverflowError", IF reverse THEN 133 ELSE 135))
               /\ UNCHANGED <<time_predicates, datetime_predicates>>
          ELSE
          \* lines 132-135: dates is empty
          IF ~\E a \in 1..date_range_len(dates_first(env1), dates_stop(env1)) :
                 \E d \in {DateAt(env1, a)} : all(date_preds, d, env1)
          THEN /\ Fail(Raise("ValueError", 167))
               /\ UNCHANGED <<time_predicates, datetime_predicates>>
          ELSE
          \* lines 136-138
          \E hours \in {predicate_list(hour_predicates, range(0, HoursPerDay), env1)} :
          \E minutes \in {predicate_list(minute_predicates, range(0, MinutesPerHour), env1)} :
          \E seconds \in {predicate_list(second_predicates, range(0, SecondsPerMinute), env1)} :
          IF first_exception(hours, minutes, seconds) # NoException
          THEN /\ Fail(first_exception(hours, minutes, seconds))
               /\ UNCHANGED <<time_predicates, datetime_predicates>>
          ELSE
          \* lines 139-144
          \E time_preds \in {IF Len(hour_predicates) > 0 \/ Len(minute_predicates) > 0
                                \/ Len(second_predicates) > 0
                             THEN time_predicates \o
                                  membership_lambdas("time.hour in hours",
                                      "time.minute in minutes", "time.second in seconds")
                             ELSE time_predicates} :
          \E env \in {[env1 EXCEPT !.hours = hours.list, !.minutes = minutes.list,
                                   !.seconds = seconds.list,
                                   !.time_predicates = time_preds]} :
          /\ time_predicates' = time_preds
          \* line 145: times is empty
          /\ IF ~\E b \in 1..SecondsPerDay :
                    \E t \in {TimeAt(env, b)} : all(time_preds, t, env)
             THEN /\ Fail(Raise("ValueError", 167))
                  /\ UNCHANGED datetime_predicates
             ELSE
             \* lines 146-156
             \E dt_preds \in {datetime_predicates \o
                              membership_lambdas("date_time.date() in dates",
                                  "date_time.timetz() in times",
                                  boundary_lambda(reverse).kind)} :
             /\ datetime_predicates' = dt_preds
             /\ search(candidates_or_product(candidates), dt_preds, env)

Next == Setup \/ Classify \/ Resolve

-----------------------------------------------------------------------------
(* The calls checked.                                                      *)

MaxSpecLen == 2

SpecsOver(Tokens) == UNION {[1..n -> Tokens] : n \in 0..MaxSpecLen}

DateTime(y, mo, d, h, mi, s, us, aw) ==
    [date |-> <<y, mo, d>>, time |-> <<h, mi, s, us>>, aware |-> aw]

\* A call and what the clock reads during it.
Call(rev, s, cands, clock) ==
    [reverse |-> rev, start |-> s, candidates |-> cands, now |-> clock]

InitWith(Specs, Calls) ==
    /\ spec \in Specs
    /\ \E c \in Calls : /\ reverse = c.reverse
                        /\ arg_start = c.start
                        /\ arg_candidates = c.candidates
                        /\ now = c.now
    /\ pc = "setup"
    /\ i = 1
    /\ candidates = None
    /\ start = None
    /\ end = None
    /\ date = None
    /\ year_predicates = <<>> /\ month_predicates = <<>> /\ day_predicates = <<>>
    /\ date_predicates = <<>>
    /\ hour_predicates = <<>> /\ minute_predicates = <<>> /\ second_predicates = <<>>
    /\ time_predicates = <<>>
    /\ datetime_predicates = <<>>
    /\ result = None
    /\ exception = NoException

\* Monday 2001-09-10 00:00:05 and Tuesday 2001-09-11 23:59:55, UTC.
ForwardStart == DateTime(2001, 9, 10, 0, 0, 5, 0, TRUE)
BackwardStart == DateTime(2001, 9, 11, 23, 59, 55, 0, TRUE)
NaiveStart == [ForwardStart EXCEPT !.aware = FALSE]
CandidateList == << DateTime(2001, 9, 11, 0, 0, 30, 0, TRUE),
                    DateTime(2001, 9, 10, 0, 0, 10, 0, FALSE),
                    DateTime(2001, 9, 10, 0, 0, 5, 500000, TRUE) >>

Tok_2001_09_10 == <<"2", "0", "0", "1", "-", "0", "9", "-", "1", "0">>
Tok_2001_09_11 == <<"2", "0", "0", "1", "-", "0", "9", "-", "1", "1">>
Tok_0_0_3 == <<"0", ":", "0", ":", "3">>
Tok_tue == <<"t", "u", "e">>
Tok_30s == <<"3", "0", "s">>
Tok_1000080010 == <<"1", "0", "0", "0", "0", "8", "0", "0", "1", "0">>

Tok_42 == <<"4", "2">>
Tok_minus_5 == <<"-", "5">>
Tok_42_padded == <<" ", "4", "2", " ">>
Tok_0s == <<"0", "s">>
Tok_7s == <<"7", "s">>
Tok_12_2024 == <<"1", "2", "-", "2", "0", "2", "4">>

Tokens == {Tok_2001_09_10, Tok_2001_09_11, Tok_0_0_3, Tok_tue, Tok_30s, Tok_1000080010}

\* Readings of the clock: the day the calls are made, within a second, and
\* the last day whose horizon is a date.
Clock == DateTime(2001, 9, 10, 0, 0, 5, 250000, TRUE)
LastClock == DateTime(MAXYEAR - HorizonYears, 12, 31, 23, 59, 59, 0, TRUE)

Calls == {Call(FALSE, Some(ForwardStart), None, Clock),
          Call(TRUE, Some(BackwardStart), None, Clock),
          Call(FALSE, Some(NaiveStart), None, Clock),
          Call(FALSE, None, None, Clock), Call(FALSE, None, None, LastClock),
          Call(FALSE, None, Some(CandidateList), Clock),
          Call(TRUE, None, Some(CandidateList), Clock),
          Call(FALSE, None, Some(<<>>), Clock)}

\* Every call shape, over specs of dates, a time, a weekday, a modulus and a
\* timestamp.
Init == InitWith(SpecsOver(Tokens), Calls)
Spec == Init /\ [][Next]_vars

\* Specs of small integers, modulus tokens and a token of no grammar, from an
\* aware start in both directions.
IntegerTokens == {Tok_42, Tok_42_padded, Tok_minus_5, Tok_0s, Tok_7s, Tok_12_2024, Tok_tue}
InitIntegers == InitWith(SpecsOver(IntegerTokens),
                         {Call(FALSE, Some(ForwardStart), None, Clock),
                          Call(TRUE, Some(BackwardStart), None, Clock)})
SpecIntegers == InitIntegers /\ [][Next]_vars

-----------------------------------------------------------------------------
(* What the tokens of a spec ask of a datetime, read off each token alone. *)

Terminal == pc \in {"returned", "raised"}

IsWeekdayToken(tok) == lower_in(tok, WEEKDAYS)
IsModulusToken(tok) ==
    /\ ~iso_date_parses(tok) /\ ~contains(tok, ":") /\ ~IsWeekdayToken(tok)
    /\ Len(tok) >= 2 /\ tok[Len(tok)] \in {"s", "m", "h", "d"}
    /\ IsInt(ButLast(tok))
IsTimeToken(tok) ==
    /\ ~iso_date_parses(tok) /\ contains(tok, ":")
    /\ Len(split(tok, ":")) \in {2, 3}
    /\ \A k \in 1..Len(split(tok, ":")) :
          split(tok, ":")[k] = <<>> \/ IsInt(split(tok, ":")[k])
IsTimestampToken(tok) ==
    /\ ~iso_date_parses(tok) /\ ~contains(tok, ":") /\ ~IsWeekdayToken(tok)
    /\ IsInt(tok) /\ int_at_least(int(tok), TimestampFloor)
    /\ fromtimestamp_raises(int(tok)) = "none"
Recognised(tok) ==
    \/ iso_date_parses(tok) \/ IsTimeToken(tok) \/ IsWeekdayToken(tok)
    \/ IsModulusToken(tok) \/ IsTimestampToken(tok)

\* v >= 0 is a multiple of the int n; nothing is a multiple of 0.
Divisible(v, n) ==
    /\ n.magnitude # <<>>
    /\ IF int_fits(n) THEN v % DigitsValue(n.magnitude) = 0 ELSE v = 0

\* What a token asks for: the date of an ISO-date token, the parts of a time
\* fragment (<<>> for an empty one), the index of a weekday, the suffix and n
\* of a modulus token, the instant of a timestamp.
TokenAsks(tok) ==
    CASE iso_date_parses(tok) ->
           [kind |-> "date", a |-> parse_iso_date(tok)]
      [] IsTimeToken(tok) ->
           LET parts == split(tok, ":")
           IN  [kind |-> "time",
                a |-> [k \in 1..Len(parts) |->
                          IF parts[k] = <<>> THEN <<>> ELSE <<int(parts[k])>>]]
      [] IsWeekdayToken(tok) ->
           [kind |-> "weekday",
            a |-> lower_index(tok, WEEKDAYS)]
      [] IsModulusToken(tok) -> [kind |-> tok[Len(tok)], a |-> int(ButLast(tok))]
      [] IsTimestampToken(tok) -> [kind |-> "timestamp", a |-> fromtimestamp(int(tok))]
      [] OTHER -> [kind |-> "unrecognised", a |-> None]
SpecAsks == [k \in 1..Len(spec) |-> TokenAsks(spec[k])]

\* Whether a date, and a time of day, is as asked.
DateAsAsked(ask, d) ==
    CASE ask.kind = "date" -> d = ask.a
      [] ask.kind = "weekday" -> weekday(d) = ask.a
      [] ask.kind = "d" -> Divisible(d[3], ask.a)
      [] ask.kind = "timestamp" -> d = ask.a.date
      [] OTHER -> TRUE
TimeAsAsked(ask, t) ==
    CASE ask.kind = "time" -> \A k \in 1..Len(ask.a) : ask.a[k] = <<>> \/ int_equals(t[k], ask.a[k][1])
      [] ask.kind = "h" -> Divisible(t[1], ask.a)
      [] ask.kind = "m" -> Divisible(t[2], ask.a)
      [] ask.kind = "s" -> Divisible(t[3], ask.a)
      [] ask.kind = "timestamp" -> t = ask.a.time
      [] OTHER -> TRUE
DateAsAllAsk(asks, d) == \A k \in 1..Len(asks) : DateAsAsked(asks[k], d)
TimeAsAllAsk(asks, t) == \A k \in 1..Len(asks) : TimeAsAsked(asks[k], t)
TokenHolds(tok, date_time) ==
    \A ask \in {TokenAsks(tok)} :
        DateAsAsked(ask, date_time.date) /\ TimeAsAsked(ask, date_time.time)
AllTokensHold(date_time) == \A k \in 1..Len(spec) : TokenHolds(spec[k], date_time)

\* The time of day on the whole second n.
TimeOfSecond(n) ==
    <<n \div (MinutesPerHour * SecondsPerMinute),
      (n \div SecondsPerMinute) % MinutesPerHour,
      n % SecondsPerMinute, 0>>

\* The tokens of the spec are mutually consistent: one date satisfies all of
\* them and one time of day does.  The dates looked at are those of the
\* years around the calls.
ConsistencyDays == 4000
MutuallyConsistent ==
    \A asks \in {SpecAsks} :
        /\ \E n \in (toordinal(ForwardStart.date) - ConsistencyDays)
                    ..(toordinal(ForwardStart.date) + ConsistencyDays) :
              \E d \in {fromordinal(n)} : DateAsAllAsk(asks, d)
        /\ \E n \in 0..(SecondsPerDay - 1) :
              \E t \in {TimeOfSecond(n)} : TimeAsAllAsk(asks, t)

\* The start the search runs from: the supplied start, the reading of the
\* clock, or the first of the sorted candidates.
EffectiveStart ==
    IF arg_candidates = None
    THEN (IF arg_start = None THEN now ELSE Get(arg_start))
    ELSE IF Len(Get(arg_candidates)) = 0 THEN None
    ELSE sort_candidates(Get(arg_candidates), reverse)[1]

LocalizedCandidates ==
    {IF is_aware(c) THEN c ELSE localize(c)
       : c \in {Get(arg_candidates)[k] : k \in 1..Len(Get(arg_candidates))}}

\* The datetime on the whole second n of the day of ordinal o.
WholeSecond(o, n) == [date |-> fromordinal(o), time |-> TimeOfSecond(n), aware |-> TRUE]

\* The whole seconds of the day before the time of day t.
SecondsInto(t) == (t[1] * MinutesPerHour + t[2]) * SecondsPerMinute + t[3]

\* date_time is on the side of the start the search looks at.
OnSearchSide(date_time) ==
    IF reverse THEN dt_le(date_time, EffectiveStart) ELSE dt_le(EffectiveStart, date_time)

\* a comes before b in search order.
Before(a, b) == a # b /\ IF reverse THEN dt_le(b, a) ELSE dt_le(a, b)

-----------------------------------------------------------------------------
(* The claims.                                                             *)

\* C1: when parse returns for a non-empty spec of mutually consistent
\* recognised tokens, the returned datetime satisfies every token of the spec:
\* it is on the date of each ISO-date token, its hour, minute and second equal
\* the non-empty parts of each time fragment, its weekday is that of each
\* weekday token, the targeted field is a multiple of n for each modulus
\* token, and it is the instant of each timestamp token.
C1_ResultSatisfiesEveryToken ==
    (pc = "returned" /\ Len(spec) > 0 /\ \A k \in 1..Len(spec) : Recognised(spec[k]))
        => (AllTokensHold(result) \/ ~MutuallyConsistent)
C1_Witness ==
    /\ pc = "returned" /\ Len(spec) >= 2
    /\ iso_date_parses(spec[1]) /\ IsTimeToken(spec[2])
    /\ MutuallyConsistent /\ AllTokensHold(result)

\* C2: whenever parse returns, the result is at or after the start when
\* searching forward and at or before it when searching backward; the start
\* is the supplied one or the first of the sorted candidates.
C2_Directionality ==
    pc = "returned" => OnSearchSide(result)
C2_Witness ==
    /\ pc = "returned" /\ reverse /\ arg_candidates # None /\ Len(spec) > 0
    /\ result # EffectiveStart /\ dt_le(result, EffectiveStart)

\* C3: the result is the first match in search order.  Without candidates it
\* is a whole second on the search side of the start that satisfies every
\* token, and no whole second between the start and it does; with candidates
\* it is the first of the sorted candidates on a whole second that satisfies
\* every token.
C3_FirstMatch ==
    pc = "returned" =>
        /\ AllTokensHold(result)
        /\ OnSearchSide(result)
        /\ IF arg_candidates = None
           THEN \A asks \in {SpecAsks} :
                \A o \in (IF reverse THEN toordinal(result.date) ELSE toordinal(EffectiveStart.date))
                         ..(IF reverse THEN toordinal(EffectiveStart.date) ELSE toordinal(result.date)) :
                \A d \in {fromordinal(o)} :
                   DateAsAllAsk(asks, d) =>
                      \A n \in 0..(SecondsPerDay - 1) :
                      \A date_time \in {[date |-> d, time |-> TimeOfSecond(n), aware |-> TRUE]} :
                         (OnSearchSide(date_time) /\ Before(date_time, result))
                            => ~TimeAsAllAsk(asks, date_time.time)
           ELSE /\ result \in LocalizedCandidates
                /\ \A c \in LocalizedCandidates :
                      (c.time[4] = 0 /\ OnSearchSide(c) /\ Before(c, result))
                         => ~AllTokensHold(c)

\* C4 as stated: with a non-empty candidates list, parse returns a member of
\* the list (naive members localized) or fails because the search over the
\* list is exhausted (NoMatch, line 154).
C4_MemberOrNoMatch ==
    (Terminal /\ arg_candidates # None /\ Len(Get(arg_candidates)) > 0)
        => \/ pc = "returned" /\ result \in LocalizedCandidates
           \/ pc = "raised" /\ exception.line = 154

\* C4, amended: with a non-empty candidates list, whatever parse returns is a
\* member of the list (naive members localized), never a datetime of the
\* dates x times enumeration outside it; parse may fail for an exhausted
\* search and for the other reasons a call without candidates fails.
C4_ReturnsMember ==
    (pc = "returned" /\ arg_candidates # None) => result \in LocalizedCandidates
C4_Witness ==
    /\ pc = "returned" /\ arg_candidates # None /\ Len(spec) > 0
    /\ \E k \in 1..Len(Get(arg_candidates)) :
          ~is_aware(Get(arg_candidates)[k]) /\ result = localize(Get(arg_candidates)[k])

\* C5: when the search of line 154 is exhausted (no datetime of dates x times,
\* or no candidate, satisfies all datetime predicates), parse fails with a
\* ValueError.
C5_NoMatchIsValueError ==
    (pc = "raised" /\ exception.line = 154) => exception.type = "ValueError"

\* C6: a spec with a token that no recogniser takes (an integer below
\* 1000000000 among them) makes parse fail with ValueError; no token is
\* skipped.
C6_UnrecognisedRejected ==
    (Terminal /\ \E k \in 1..Len(spec) : ~Recognised(spec[k]))
        => (pc = "raised" /\ exception.type = "ValueError")

\* C7: the start is aware before it is compared: once the scan window is set
\* the start is aware, and parse does not fail with the TypeError of comparing
\* an aware datetime with a naive one.
C7_NaiveStartLocalized ==
    /\ pc = "resolve" => is_aware(start)
    /\ pc = "raised" => exception.type # "TypeError"

\* C8: with the empty spec and no candidates parse returns the start when it
\* is a whole second, and otherwise the nearest whole second on the search
\* side of it.
C8_EmptySpecNearestSecond ==
    (Terminal /\ Len(spec) = 0 /\ arg_candidates = None) =>
        /\ pc = "returned"
        /\ result = IF EffectiveStart.time[4] = 0 \/ reverse
                    THEN WholeSecond(toordinal(EffectiveStart.date), SecondsInto(EffectiveStart.time))
                    ELSE IF SecondsInto(EffectiveStart.time) + 1 < SecondsPerDay
                    THEN WholeSecond(toordinal(EffectiveStart.date), SecondsInto(EffectiveStart.time) + 1)
                    ELSE WholeSecond(toordinal(EffectiveStart.date) + 1, 0)

\* C9: a spec with a modulus token (any integer n, 0 included) makes parse
\* return a datetime whose targeted field is a multiple of n, or fail with a
\* ValueError or the exhausted search of line 154; no other exception
\* escapes.
C9_ModulusErrorKinds ==
    (Terminal /\ \E k \in 1..Len(spec) : IsModulusToken(spec[k])) =>
        \/ /\ pc = "returned"
           /\ \A k \in 1..Len(spec) : IsModulusToken(spec[k]) => TokenHolds(spec[k], result)
        \/ pc = "raised" /\ (exception.type = "ValueError" \/ exception.line = 154)

\* C10: a spec with two ISO-date tokens of different dates, both on the
\* allowed side of an aware start, makes parse fail with ValueError.
C10_TwoDatesFail ==
    (/\ Terminal /\ (arg_candidates = None \/ Len(Get(arg_candidates)) > 0)
     /\ is_aware(EffectiveStart)
     /\ \E j, k \in 1..Len(spec) :
           /\ iso_date_parses(spec[j]) /\ iso_date_parses(spec[k])
           /\ parse_iso_date(spec[j]) # parse_iso_date(spec[k])
           /\ ~wrong_side(parse_iso_date(spec[j]), EffectiveStart, reverse)
           /\ ~wrong_side(parse_iso_date(spec[k]), EffectiveStart, reverse))
        => (pc = "raised" /\ exception.type = "ValueError")

====
